---- MODULE Spec2Model ----
(***************************************************************************)
(* Lake-level extraction from raster files: the cyanobacteria-index        *)
(* pipeline (ilw_daily_5_great_lakes_preprocess.py: run_daily and its      *)
(* helpers) and the Daymet climate pipeline                                *)
(* (daymet_daily_5_great_lakes_preprocess.py, a module-level script).      *)
(*                                                                         *)
(* Numbers.  Cell values and valid_min / valid_max are IEEE floats; they   *)
(* are modelled as tagged values (a number, NaN, +inf, -inf) whose numbers *)
(* are integers in units of 1e-5, so that the background threshold 5e-5 is *)
(* 5.  Means and quantiles are exact fractions [n / d].  Timestamps are    *)
(* integers (ticks).  File names are the positions of the files in the     *)
(* sorted glob result.                                                     *)
(***************************************************************************)
EXTENDS Integers, Sequences, FiniteSets, TLC

VARIABLES
    pipeline,     \* "ilw" (run_daily), "daymet" (the Daymet script), "pure"
    layer,        \* the lake vector layer on disk
    gdf,          \* the lake table in use after loading
    lake_masks,   \* Daymet: lake_id -> the cells inside the lake
    files,        \* the raster files on disk, in sorted name order
    pc,           \* position of the running script
    idx,          \* index of the file (variable) being processed
    out_rows,     \* run_daily: list of per-file result tables
    dfs,          \* Daymet: list of per-variable result tables
    log,          \* lines printed so far
    opens,        \* calls made to the raster decoding libraries, in order
    handles,      \* dataset handles currently open
    out_parquet,  \* the output table on disk
    err,          \* the exception that ended the run, if any
    arg,          \* argument of the function under call (function-level runs)
    ret           \* its result

vars == <<pipeline, layer, gdf, lake_masks, files, pc, idx, out_rows, dfs, log, opens,
          handles, out_parquet, err, arg, ret>>

runVars == <<pipeline, layer, gdf, lake_masks, files, idx, out_rows, dfs, log, opens,
             handles, out_parquet, err>>

-----------------------------------------------------------------------------
(* Bounds of the model *)

MaxFiles == 2
NCells == 3

-----------------------------------------------------------------------------
(* Floats *)

Num(n) == [k |-> "num", n |-> n]
NaN == [k |-> "nan", n |-> 0]
PosInf == [k |-> "inf", n |-> 0]
NegInf == [k |-> "ninf", n |-> 0]

IsFinite(x) == x.k = "num"

GE(x, y) ==
    /\ x.k # "nan"
    /\ y.k # "nan"
    /\ \/ x.k = "inf"
       \/ y.k = "ninf"
       \/ (x.k = "num" /\ y.k = "num" /\ x.n >= y.n)

LE(x, y) == GE(y, x)

GT(x, y) == x.k # "nan" /\ y.k # "nan" /\ ~GE(y, x)

\* exact fractions; the undefined statistic is NaN
Rat(n, d) == [k |-> "num", n |-> n, d |-> d]
NaNRat == [k |-> "nan", n |-> 0, d |-> 1]

RECURSIVE SumSeq(_)
SumSeq(s) == IF s = <<>> THEN 0 ELSE Head(s) + SumSeq(Tail(s))

RECURSIVE FilterFinite(_)
FilterFinite(s) ==
    IF s = <<>> THEN <<>>
    ELSE IF IsFinite(Head(s)) THEN <<Head(s).n>> \o FilterFinite(Tail(s))
    ELSE FilterFinite(Tail(s))

\* np.nanmean over finite values
nanmean(xs) == Rat(SumSeq(xs), Len(xs))

\* np.nanquantile(vals, 0.9), linear interpolation between order statistics:
\* position 0.9 * (n - 1), as a fraction over 10
nanquantile90(xs) ==
    LET s == SortSeq(xs, LAMBDA a, b : a < b)
        n == Len(s)
        pos == 9 * (n - 1)
        lo == pos \div 10
        r == pos % 10
        hi == IF lo + 1 <= n - 1 THEN lo + 1 ELSE n - 1
    IN Rat(10 * s[lo + 1] + r * (s[hi + 1] - s[lo + 1]), 10)

-----------------------------------------------------------------------------
(* Timestamps and their sources *)

\* a dataset attribute or a piece of text to be parsed as a date:
\* absent (None), the empty string, an unparseable string, or a date
NoneAttr == [k |-> "none", v |-> 0]
EmptyAttr == [k |-> "empty", v |-> 0]
BadAttr == [k |-> "bad", v |-> 0]
DateAttr(d) == [k |-> "date", v |-> d]

\* Python truthiness of an attribute value
Truthy(a) == a.k \in {"bad", "date"}

\* Python `a or b`
PyOr(a, b) == IF Truthy(a) THEN a ELSE b

\* pd.to_datetime of one value: raises on text that is no date
to_datetime(a) == [ok |-> a.k = "date", t |-> a.v]

\* Timedelta / 2 truncates toward zero
HalfDelta(d) == IF d >= 0 THEN d \div 2 ELSE -((-d) \div 2)

Raise(e) == [ok |-> FALSE, t |-> 0, err |-> e]
Return(t) == [ok |-> TRUE, t |-> t, err |-> ""]

\* step 1: pd.to_datetime(ds["time"].values), flattened, first element;
\* any exception (unparseable values, empty array) is swallowed
TimeFromCoord(ds) ==
    IF /\ "time" \in ds.variables
       /\ \A i \in 1..Len(ds.time) : to_datetime(ds.time[i]).ok
       /\ Len(ds.time) > 0
    THEN Return(to_datetime(ds.time[1]).t)
    ELSE Raise("time")

\* step 2: global attributes
TimeFromAttrs(ds, product) ==
    LET start == PyOr(ds.attrs.time_coverage_start, ds.attrs.start_time)
        end == PyOr(ds.attrs.time_coverage_end, ds.attrs.end_time)
        ts == to_datetime(start)
        te == to_datetime(end)
    IN IF Truthy(start) /\ Truthy(end) /\ ts.ok /\ te.ok
       THEN IF product = "monthly"
            THEN Return(ts.t + HalfDelta(te.t - ts.t))
            ELSE Return(ts.t)
       ELSE Raise("attrs")

\* step 3: the file name.  fn.kind says which pattern the name matches
\* ("MO": .YYYYMMDD_YYYYMMDD.L3m.MO. ; "DAY": .YYYYMMDD.L3m.DAY. ; "none"),
\* fn.b and fn.e are the 8-digit groups.  An 8-digit group that is no date
\* makes pd.to_datetime raise, which also ends in an exception.
TimeFromName(fn, product) ==
    IF product = "monthly"
    THEN IF fn.kind = "MO"
         THEN IF to_datetime(fn.b).ok /\ to_datetime(fn.e).ok
              THEN Return(to_datetime(fn.b).t
                          + HalfDelta(to_datetime(fn.e).t - to_datetime(fn.b).t))
              ELSE Raise("bad date in file name")
         ELSE Raise("Cannot infer time from dataset or filename")
    ELSE IF fn.kind = "DAY"
         THEN IF to_datetime(fn.b).ok
              THEN Return(to_datetime(fn.b).t)
              ELSE Raise("bad date in file name")
         ELSE Raise("Cannot infer time from dataset or filename")

infer_time_label_swapped(fn, ds, product) ==
    IF TimeFromName(fn, product).ok THEN TimeFromName(fn, product)
    ELSE IF TimeFromAttrs(ds, product).ok THEN TimeFromAttrs(ds, product)
    ELSE TimeFromCoord(ds)

infer_time_label(fn, ds, product) ==
    IF TimeFromCoord(ds).ok THEN TimeFromCoord(ds)
    ELSE IF TimeFromAttrs(ds, product).ok THEN TimeFromAttrs(ds, product)
    ELSE TimeFromName(fn, product)

-----------------------------------------------------------------------------
(* Value cleaning and the per-lake reduction *)

\* 5e-5, in units of 1e-5
BackgroundCI == 5

AbsentAttr == [k |-> "absent", n |-> 0]

\* float(da.attrs.get(name, np.nan))
AttrFloat(a) == IF a.k = "absent" THEN NaN ELSE a

\* max(vmin, 5e-5) for a finite vmin
PyMax(vmin, c) == IF vmin.n > c THEN vmin ELSE Num(c)

clean_ci_ge(da) ==
    LET vmin == AttrFloat(da.attrs.valid_min)
        vmax == AttrFloat(da.attrs.valid_max)
        d1 == IF IsFinite(vmin)
              THEN [i \in 1..Len(da.vals) |->
                        IF GE(da.vals[i], vmin) THEN da.vals[i] ELSE NaN]
              ELSE da.vals
        d2 == IF IsFinite(vmax)
              THEN [i \in 1..Len(d1) |-> IF LE(d1[i], vmax) THEN d1[i] ELSE NaN]
              ELSE d1
        thr == IF IsFinite(vmin) THEN PyMax(vmin, BackgroundCI) ELSE Num(BackgroundCI)
    IN [da EXCEPT !.vals =
            [i \in 1..Len(d2) |-> IF GE(d2[i], thr) THEN d2[i] ELSE NaN]]

clean_ci(da) ==
    LET vmin == AttrFloat(da.attrs.valid_min)
        vmax == AttrFloat(da.attrs.valid_max)
        d1 == IF IsFinite(vmin)
              THEN [i \in 1..Len(da.vals) |->
                        IF GE(da.vals[i], vmin) THEN da.vals[i] ELSE NaN]
              ELSE da.vals
        d2 == IF IsFinite(vmax)
              THEN [i \in 1..Len(d1) |-> IF LE(d1[i], vmax) THEN d1[i] ELSE NaN]
              ELSE d1
        thr == IF IsFinite(vmin) THEN PyMax(vmin, BackgroundCI) ELSE Num(BackgroundCI)
    IN [da EXCEPT !.vals =
            [i \in 1..Len(d2) |-> IF GT(d2[i], thr) THEN d2[i] ELSE NaN]]

\* one iteration of the lake loop: bounding-box mask, count, mean, p90, row
LakeRow(da, lat, lon, r, nc_path, product, time_label, engine) ==
    LET b == r.geometry
        sub == [i \in 1..Len(da.vals) |->
                   IF /\ lon[i] >= b.minx /\ lon[i] <= b.maxx
                      /\ lat[i] >= b.miny /\ lat[i] <= b.maxy
                   THEN da.vals[i] ELSE NaN]
        vals == FilterFinite(sub)
        n_valid == Len(vals)
    IN [lake_id |-> r.lake_id,
        time |-> time_label,
        product |-> product,
        CI_mean |-> IF n_valid > 0 THEN nanmean(vals) ELSE NaNRat,
        CI_p90 |-> IF n_valid > 0 THEN nanquantile90(vals) ELSE NaNRat,
        n_valid |-> n_valid,
        src |-> nc_path,
        engine |-> engine]

RaiseDf(e) == [ok |-> FALSE, err |-> e, df |-> <<>>]
ReturnDf(df) == [ok |-> TRUE, err |-> "", df |-> df]

RECURSIVE DropEmptyRows(_)
DropEmptyRows(df) ==
    IF df = <<>> THEN <<>>
    ELSE IF Head(df).n_valid = 0 THEN DropEmptyRows(Tail(df))
    ELSE <<Head(df)>> \o DropEmptyRows(Tail(df))

_extract_lakes_core_dropping(ds, nc_path, lakes_gdf, product, time_label, engine) ==
    IF "CI_cyano" \notin ds.data_vars
    THEN RaiseDf("CI_cyano not found in dataset data_vars")
    ELSE IF "lat" \notin ds.variables \/ "lon" \notin ds.variables
    THEN RaiseDf("lat / lon not found in dataset")
    ELSE IF Len(ds.lat) # Len(ds.CI_cyano.vals) \/ Len(ds.lon) # Len(ds.CI_cyano.vals)
    THEN RaiseDf("lat/lon shape not matching CI_cyano")
    ELSE IF ds.ioerr \in 1..Len(lakes_gdf)
    THEN RaiseDf("read error")
    ELSE ReturnDf(DropEmptyRows([i \in 1..Len(lakes_gdf) |->
             LakeRow(clean_ci(ds.CI_cyano), ds.lat, ds.lon, lakes_gdf[i],
                     nc_path, product, time_label, engine)]))

\* ds.ioerr = k > 0: reading the arrays raises while lake k is reduced
\* (the arrays are loaded lazily); the rows built so far are local and lost
_extract_lakes_core_from_ds(ds, nc_path, lakes_gdf, product, time_label, engine) ==
    IF "CI_cyano" \notin ds.data_vars
    THEN RaiseDf("CI_cyano not found in dataset data_vars")
    ELSE IF "lat" \notin ds.variables \/ "lon" \notin ds.variables
    THEN RaiseDf("lat / lon not found in dataset")
    ELSE IF Len(ds.lat) # Len(ds.CI_cyano.vals) \/ Len(ds.lon) # Len(ds.CI_cyano.vals)
    THEN RaiseDf("lat/lon shape not matching CI_cyano")
    ELSE IF ds.ioerr \in 1..Len(lakes_gdf)
    THEN RaiseDf("read error")
    ELSE ReturnDf([i \in 1..Len(lakes_gdf) |->
             LakeRow(clean_ci(ds.CI_cyano), ds.lat, ds.lon, lakes_gdf[i],
                     nc_path, product, time_label, engine)])

-----------------------------------------------------------------------------
(* Inputs: lakes, grids, datasets *)

Lake(id, minx, miny, maxx, maxy) ==
    [lake_id |-> id,
     geometry |-> [minx |-> minx, miny |-> miny, maxx |-> maxx, maxy |-> maxy]]

\* cells sit at (lon, lat) = (1,1), (2,1), (3,2), (4,2), ...
GridLon == [i \in 1..NCells |-> i]
GridLat == [i \in 1..NCells |-> (i + 1) \div 2]

Erie == Lake(1, 1, 1, 2, 1)        \* its box holds cells 1 and 2
Huron == Lake(2, 2, 2, 3, 2)       \* its box holds cell 3
Superior == Lake(3, 7, 7, 9, 9)    \* its box holds no cell of the grid

NoTimeAttrs ==
    [time_coverage_start |-> NoneAttr, start_time |-> NoneAttr,
     time_coverage_end |-> NoneAttr, end_time |-> NoneAttr]

AllVars == {"CI_cyano", "lat", "lon", "time"}

\* an opened dataset
Dataset(variables, time, attrs, vmin, vmax, vals, ioerr) ==
    [variables |-> variables,
     data_vars |-> variables \cap {"CI_cyano"},
     time |-> time,
     attrs |-> attrs,
     CI_cyano |-> [attrs |-> [valid_min |-> vmin, valid_max |-> vmax], vals |-> vals],
     lat |-> GridLat,
     lon |-> GridLon,
     ioerr |-> ioerr]

CellValues == {NaN, PosInf, NegInf, Num(0), Num(5), Num(6), Num(9), Num(12)}
ValidMins == {AbsentAttr, Num(3), Num(6), Num(100)}
ValidMaxs == {AbsentAttr, Num(9)}

idle ==
    /\ pipeline = "pure"
    /\ layer = <<>>
    /\ gdf = <<>>
    /\ lake_masks = <<>>
    /\ files = <<>>
    /\ idx = 0
    /\ out_rows = <<>>
    /\ dfs = <<>>
    /\ log = <<>>
    /\ opens = <<>>
    /\ handles = {}
    /\ out_parquet = [written |-> FALSE, rows |-> <<>>]
    /\ err = ""

-----------------------------------------------------------------------------
(* infer_time_label on its own *)

TimeCoords ==
    { <<>>, <<BadAttr>>, <<DateAttr(10)>>, <<DateAttr(11), DateAttr(10)>>,
      <<DateAttr(10), BadAttr>> }

FileNames ==
    { [kind |-> "none", b |-> BadAttr, e |-> BadAttr],
      [kind |-> "DAY", b |-> DateAttr(30), e |-> BadAttr],
      [kind |-> "DAY", b |-> BadAttr, e |-> BadAttr],
      [kind |-> "MO", b |-> DateAttr(30), e |-> DateAttr(37)],
      [kind |-> "MO", b |-> DateAttr(30), e |-> BadAttr] }

TimeArgs ==
    { [fn |-> fn, product |-> product,
       ds |-> Dataset((AllVars \ {"time"}) \cup tv, tm,
                      [time_coverage_start |-> tcs, start_time |-> st,
                       time_coverage_end |-> tce, end_time |-> et],
                      AbsentAttr, AbsentAttr, [i \in 1..NCells |-> NaN], 0)] :
        fn \in FileNames, product \in {"monthly", "daily"},
        tv \in {{}, {"time"}}, tm \in TimeCoords,
        tcs \in {NoneAttr, EmptyAttr, BadAttr, DateAttr(20)},
        st \in {NoneAttr, DateAttr(21)},
        tce \in {NoneAttr, BadAttr, DateAttr(25)},
        et \in {NoneAttr, DateAttr(28)} }

InitTime ==
    /\ idle
    /\ pc = "call infer_time_label"
    /\ arg \in TimeArgs
    /\ ret = Raise("")

CallInferTimeLabel ==
    /\ pc = "call infer_time_label"
    /\ ret' = infer_time_label(arg.fn, arg.ds, arg.product)
    /\ pc' = "returned"
    /\ UNCHANGED <<runVars, arg>>

NextTime == CallInferTimeLabel

SpecTime == InitTime /\ [][NextTime]_vars

-----------------------------------------------------------------------------
(* clean_ci and the per-lake reduction on their own *)

LakeTables == { <<>>, <<Huron>>, <<Erie, Huron, Superior>> }

ReduceArgs ==
    { [ds |-> Dataset(AllVars, <<DateAttr(10)>>, NoTimeAttrs, vmin, vmax, vals, 0),
       lakes |-> <<Erie, Huron, Superior>>] :
        vmin \in ValidMins, vmax \in ValidMaxs, vals \in [1..NCells -> CellValues] }
    \cup
    { [ds |-> Dataset(vs, <<DateAttr(10)>>, NoTimeAttrs, Num(3), AbsentAttr,
                      vals, ioerr),
       lakes |-> lakes] :
        vs \in {AllVars, AllVars \ {"CI_cyano"}, AllVars \ {"lat"}, AllVars \ {"lon"}},
        vals \in {[i \in 1..NCells |-> Num(6)], [i \in 1..(NCells + 1) |-> Num(6)]},
        ioerr \in 0..2,
        lakes \in LakeTables }

InitReduce ==
    /\ idle
    /\ pc = "call _extract_lakes_core_from_ds"
    /\ arg \in ReduceArgs
    /\ ret = RaiseDf("")

CallExtractCore ==
    /\ pc = "call _extract_lakes_core_from_ds"
    /\ ret' = _extract_lakes_core_from_ds(arg.ds, 1, arg.lakes, "daily", 10, "netcdf4")
    /\ pc' = "returned"
    /\ UNCHANGED <<runVars, arg>>

NextReduce == CallExtractCore

SpecReduce == InitReduce /\ [][NextReduce]_vars

-----------------------------------------------------------------------------
(* The lake layer and the raster files of a run of run_daily *)

NullGeometry == [isnull |-> TRUE]

\* crs: "none" or "EPSG:4326"; columns: the layer's field names
Layer(crs, columns, rows) == [crs |-> crs, columns |-> columns, rows |-> rows]

IlwLayers ==
    { Layer("EPSG:4326", {"lake_id", "geometry"}, <<Erie, Huron, Superior>>),
      Layer("EPSG:4326", {"lake_id", "geometry"},
            <<Erie, [lake_id |-> 2, geometry |-> NullGeometry]>>),
      Layer("EPSG:4326", {"lake_id", "geometry"}, <<>>),
      Layer("none", {"lake_id", "geometry"}, <<Erie, Huron>>),
      Layer("EPSG:4326", {"name", "geometry"}, <<Erie, Huron>>) }

\* gdf.to_crs(4326)[[lake_id_col, "geometry"]].dropna()
dropna(rows) == SelectSeq(rows, LAMBDA r : r.geometry # NullGeometry)

\* leading bytes: \x89 H D F and C D F
MagicHDF == <<137, 72, 68, 70>>
MagicCDF == <<67, 68, 70>>

StartsWith(s, prefix) ==
    /\ Len(s) >= Len(prefix)
    /\ SubSeq(s, 1, Len(prefix)) = prefix

\* f.read(8)
Read8(bytes) == SubSeq(bytes, 1, IF Len(bytes) < 8 THEN Len(bytes) ELSE 8)

looks_like_hdf5_lenient(f) ==
    IF f.readable
    THEN StartsWith(Read8(f.bytes), MagicHDF) \/ StartsWith(Read8(f.bytes), MagicCDF)
    ELSE TRUE

looks_like_hdf5(f) ==
    IF f.readable
    THEN StartsWith(Read8(f.bytes), MagicHDF) \/ StartsWith(Read8(f.bytes), MagicCDF)
    ELSE FALSE

\* a raster file: whether it can be read at all, its leading bytes, the date
\* part of its name, which engines can open it, what an opened dataset
\* holds, and where reading its arrays fails under each engine (0: nowhere)
File(readable, bytes, fn, nc4, h5, ds, ioerr) ==
    [readable |-> readable, bytes |-> bytes, fn |-> fn,
     opens |-> [netcdf4 |-> nc4, h5netcdf |-> h5],
     ds |-> ds,
     ioerr |-> ioerr]

NoIoErr == [netcdf4 |-> 0, h5netcdf |-> 0]
DayName == [kind |-> "DAY", b |-> DateAttr(30), e |-> BadAttr]
OddName == [kind |-> "none", b |-> BadAttr, e |-> BadAttr]
HdfBytes == MagicHDF \o <<13, 10, 26, 10, 0>>
RampVals == [i \in 1..NCells |-> Num(3 * i + 3)]
StartAttrs == [NoTimeAttrs EXCEPT !.time_coverage_start = DateAttr(20),
                                  !.time_coverage_end = DateAttr(21)]
GoodDs == Dataset(AllVars, <<DateAttr(10)>>, StartAttrs, Num(3), AbsentAttr, RampVals, 0)

Catalog ==
    { File(TRUE, HdfBytes, DayName, TRUE, TRUE, GoodDs, NoIoErr),
      \* arbitrary leading bytes, too few bytes, unreadable
      File(TRUE, <<1, 2, 3, 4, 5, 6, 7, 8>>, DayName, TRUE, TRUE, GoodDs, NoIoErr),
      File(TRUE, <<67, 68>>, DayName, TRUE, TRUE, GoodDs, NoIoErr),
      File(FALSE, HdfBytes, DayName, TRUE, TRUE, GoodDs, NoIoErr),
      \* classic NetCDF, HDF5 that only h5netcdf opens, HDF5 that nothing opens
      File(TRUE, MagicCDF \o <<1>>, DayName, TRUE, FALSE, GoodDs, NoIoErr),
      File(TRUE, HdfBytes, DayName, FALSE, TRUE, GoodDs, NoIoErr),
      File(TRUE, HdfBytes, DayName, FALSE, FALSE, GoodDs, NoIoErr),
      \* no time source at all; the time only in the file name
      File(TRUE, HdfBytes, OddName, TRUE, TRUE,
           Dataset(AllVars \ {"time"}, <<>>, NoTimeAttrs, Num(3), AbsentAttr, RampVals, 0),
           NoIoErr),
      File(TRUE, HdfBytes, DayName, TRUE, TRUE,
           Dataset(AllVars \ {"time"}, <<>>, NoTimeAttrs, Num(3), AbsentAttr, RampVals, 0),
           NoIoErr),
      \* no lat, no CI_cyano
      File(TRUE, HdfBytes, DayName, TRUE, TRUE,
           Dataset(AllVars \ {"lat"}, <<DateAttr(10)>>, NoTimeAttrs, Num(3), AbsentAttr,
                   RampVals, 0),
           NoIoErr),
      File(TRUE, HdfBytes, DayName, TRUE, TRUE,
           Dataset(AllVars \ {"CI_cyano"}, <<DateAttr(10)>>, NoTimeAttrs, Num(3),
                   AbsentAttr, RampVals, 0),
           NoIoErr),
      \* CI_cyano with one cell more than lat and lon
      File(TRUE, HdfBytes, DayName, TRUE, TRUE,
           Dataset(AllVars, <<DateAttr(10)>>, NoTimeAttrs, Num(3), AbsentAttr,
                   [i \in 1..(NCells + 1) |-> Num(6)], 0),
           NoIoErr),
      \* reading fails under netcdf4 while the second lake is reduced
      File(TRUE, HdfBytes, DayName, TRUE, TRUE, GoodDs, [netcdf4 |-> 2, h5netcdf |-> 0]),
      \* valid_min = 0.001 and every cell 0.0
      File(TRUE, HdfBytes, DayName, TRUE, TRUE,
           Dataset(AllVars, <<DateAttr(11)>>, NoTimeAttrs, Num(100), AbsentAttr,
                   [i \in 1..NCells |-> Num(0)], 0),
           NoIoErr) }

RECURSIVE SeqsUpTo(_, _)
SeqsUpTo(S, n) ==
    IF n = 0 THEN {<<>>}
    ELSE SeqsUpTo(S, n - 1) \cup
         {Append(s, x) : s \in {q \in SeqsUpTo(S, n - 1) : Len(q) = n - 1}, x \in S}

\* xr.open_dataset(path, engine=...) on a file the engine can open
OpenDataset(f, engine) == [f.ds EXCEPT !.ioerr = f.ioerr[engine]]

\* a printed line: its text, the file it names, the engine it names, and the
\* failure reasons it carries, each with the engine that failed
Line(msg, file, engine, reason) ==
    [msg |-> msg, file |-> file, engine |-> engine,
     reasons |-> IF reason = "" THEN {} ELSE {<<engine, reason>>},
     counts |-> <<>>]

\* the closing line of run_daily: "[daily] saved -> ... (rows=.., files=..)"
SavedLine(rows, nfiles) ==
    [msg |-> "[daily] saved", file |-> 0, engine |-> "", reasons |-> {},
     counts |-> [rows |-> rows, files |-> nfiles]]

\* df_one after rename(time -> date), df_one["src"] = ..., df_one["engine"] = ...
RunTable(df, name, engine) ==
    [i \in 1..Len(df) |->
        [lake_id |-> df[i].lake_id, date |-> df[i].time, product |-> df[i].product,
         CI_mean |-> df[i].CI_mean, CI_p90 |-> df[i].CI_p90, n_valid |-> df[i].n_valid,
         src |-> name, engine |-> engine]]

\* the body of the with block: infer_time_label, then the core
ExtractWith(f, name, lakes_gdf, engine) ==
    LET ds == OpenDataset(f, engine)
        t == infer_time_label(f.fn, ds, "daily")
    IN IF ~t.ok THEN RaiseDf(t.err)
       ELSE _extract_lakes_core_from_ds(ds, name, lakes_gdf, "daily", t.t, engine)

RECURSIVE Concat(_)
Concat(tables) == IF tables = <<>> THEN <<>> ELSE Head(tables) \o Concat(Tail(tables))

RowBefore(a, b) ==
    a.lake_id < b.lake_id \/ (a.lake_id = b.lake_id /\ a.date < b.date)

RECURSIVE InsertRow(_, _)
InsertRow(sorted, r) ==
    IF sorted = <<>> THEN <<r>>
    ELSE IF RowBefore(r, Head(sorted)) THEN <<r>> \o sorted
    ELSE <<Head(sorted)>> \o InsertRow(Tail(sorted), r)

\* sort_values(["lake_id", "date"])
RECURSIVE SortRows(_)
SortRows(rows) ==
    IF rows = <<>> THEN <<>>
    ELSE InsertRow(SortRows(SubSeq(rows, 1, Len(rows) - 1)), rows[Len(rows)])

-----------------------------------------------------------------------------
(* run_daily *)

InitIlw ==
    /\ pipeline = "ilw"
    /\ layer \in IlwLayers
    /\ files \in SeqsUpTo(Catalog, MaxFiles)

\* read the layer, check the CRS, select the columns, list the files
ReadLakes_unchecked ==
    /\ pipeline = "ilw"
    /\ pc = "start"
    /\ IF "lake_id" \notin layer.columns
       THEN /\ pc' = "raised"
            /\ err' = "KeyError: lake_id"
            /\ UNCHANGED <<gdf, idx, log>>
       ELSE /\ gdf' = dropna(layer.rows)
            /\ err' = err
            /\ IF files = <<>>
               THEN /\ log' = Append(log, Line("[WARN] No daily files found", 0, "", ""))
                    /\ pc' = "done"
                    /\ idx' = idx
               ELSE /\ log' = Append(log, Line("[daily] found files", 0, "", ""))
                    /\ pc' = "loop"
                    /\ idx' = 1
    /\ UNCHANGED <<pipeline, layer, lake_masks, files, out_rows, dfs, opens, handles, out_parquet,
                   arg, ret>>

ReadLakes ==
    /\ pipeline = "ilw"
    /\ pc = "start"
    /\ IF layer.crs = "none"
       THEN /\ pc' = "raised"
            /\ err' = "ValueError: The lake file is missing CRS"
            /\ UNCHANGED <<gdf, idx, log>>
       ELSE IF "lake_id" \notin layer.columns
       THEN /\ pc' = "raised"
            /\ err' = "KeyError: lake_id"
            /\ UNCHANGED <<gdf, idx, log>>
       ELSE /\ gdf' = dropna(layer.rows)
            /\ err' = err
            /\ IF files = <<>>
               THEN /\ log' = Append(log, Line("[WARN] No daily files found", 0, "", ""))
                    /\ pc' = "done"
                    /\ idx' = idx
               ELSE /\ log' = Append(log, Line("[daily] found files", 0, "", ""))
                    /\ pc' = "loop"
                    /\ idx' = 1
    /\ UNCHANGED <<pipeline, layer, lake_masks, files, out_rows, dfs, opens, handles, out_parquet,
                   arg, ret>>

\* top of the loop body: the start line and the header check
CheckHeader ==
    /\ pipeline = "ilw"
    /\ pc = "loop"
    /\ idx <= Len(files)
    /\ IF ~looks_like_hdf5(files[idx])
       THEN /\ log' = log \o <<Line("[daily] start", idx, "", ""),
                              Line("[WARN] Skip (not HDF5/NetCDF header)", idx, "", "")>>
            /\ idx' = idx + 1
            /\ pc' = "loop"
       ELSE /\ log' = Append(log, Line("[daily] start", idx, "", ""))
            /\ idx' = idx
            /\ pc' = "netcdf4 open"
    /\ UNCHANGED <<pipeline, layer, gdf, lake_masks, files, out_rows, dfs, opens, handles,
                   out_parquet, err, arg, ret>>

\* extract_lakes_from_nc: xr.open_dataset(nc_path, engine="netcdf4")
OpenNetcdf4 ==
    /\ pipeline = "ilw"
    /\ pc = "netcdf4 open"
    /\ opens' = Append(opens, [file |-> idx, engine |-> "netcdf4"])
    /\ IF files[idx].opens["netcdf4"]
       THEN /\ handles' = handles \cup {<<idx, "netcdf4">>}
            /\ pc' = "netcdf4 extract"
            /\ log' = log
       ELSE /\ handles' = handles
            /\ pc' = "h5netcdf open"
            /\ log' = Append(log, Line("[WARN] netcdf4 failed", idx, "netcdf4",
                                        "cannot open"))
    /\ UNCHANGED <<pipeline, layer, gdf, lake_masks, files, idx, out_rows, dfs, out_parquet, err,
                   arg, ret>>

\* the with block of extract_lakes_from_nc, then the rest of the first try
ExtractNetcdf4_leak ==
    /\ pipeline = "ilw"
    /\ pc = "netcdf4 extract"
    /\ LET r == ExtractWith(files[idx], idx, gdf, "netcdf4")
           k == files[idx].ioerr["netcdf4"]
           partial == ExtractWith([files[idx] EXCEPT !.ioerr = NoIoErr], idx,
                                  SubSeq(gdf, 1, k - 1), "netcdf4")
       IN /\ handles' = handles \ {<<idx, "netcdf4">>}
          /\ IF r.ok
             THEN /\ out_rows' = Append(out_rows, RunTable(r.df, idx, "netcdf4"))
                  /\ log' = Append(log, Line("[daily] done", idx, "netcdf4", ""))
                  /\ idx' = idx + 1
                  /\ pc' = "loop"
             ELSE /\ out_rows' = IF r.err = "read error"
                                 THEN Append(out_rows, RunTable(partial.df, idx, "netcdf4"))
                                 ELSE out_rows
                  /\ log' = Append(log, Line("[WARN] netcdf4 failed", idx, "netcdf4", r.err))
                  /\ idx' = idx
                  /\ pc' = "h5netcdf open"
    /\ UNCHANGED <<pipeline, layer, gdf, lake_masks, files, dfs, opens, out_parquet, err,
                   arg, ret>>

ExtractNetcdf4_fallthrough ==
    /\ pipeline = "ilw"
    /\ pc = "netcdf4 extract"
    /\ LET r == ExtractWith(files[idx], idx, gdf, "netcdf4")
       IN /\ handles' = handles \ {<<idx, "netcdf4">>}
          /\ IF r.ok
             THEN /\ out_rows' = Append(out_rows, RunTable(r.df, idx, "netcdf4"))
                  /\ log' = Append(log, Line("[daily] done", idx, "netcdf4", ""))
                  /\ idx' = idx
                  /\ pc' = "h5netcdf open"
             ELSE /\ out_rows' = out_rows
                  /\ log' = Append(log, Line("[WARN] netcdf4 failed", idx, "netcdf4", r.err))
                  /\ idx' = idx
                  /\ pc' = "h5netcdf open"
    /\ UNCHANGED <<pipeline, layer, gdf, lake_masks, files, dfs, opens, out_parquet, err, arg, ret>>

ExtractNetcdf4 ==
    /\ pipeline = "ilw"
    /\ pc = "netcdf4 extract"
    /\ LET r == ExtractWith(files[idx], idx, gdf, "netcdf4")
       IN /\ handles' = handles \ {<<idx, "netcdf4">>}
          /\ IF r.ok
             THEN /\ out_rows' = Append(out_rows, RunTable(r.df, idx, "netcdf4"))
                  /\ log' = Append(log, Line("[daily] done", idx, "netcdf4", ""))
                  /\ idx' = idx + 1
                  /\ pc' = "loop"
             ELSE /\ out_rows' = out_rows
                  /\ log' = Append(log, Line("[WARN] netcdf4 failed", idx, "netcdf4", r.err))
                  /\ idx' = idx
                  /\ pc' = "h5netcdf open"
    /\ UNCHANGED <<pipeline, layer, gdf, lake_masks, files, dfs, opens, out_parquet, err, arg, ret>>

\* _extract_one_with_h5netcdf: xr.open_dataset(nc_path, engine="h5netcdf", ...)
OpenH5netcdf ==
    /\ pipeline = "ilw"
    /\ pc = "h5netcdf open"
    /\ opens' = Append(opens, [file |-> idx, engine |-> "h5netcdf"])
    /\ IF files[idx].opens["h5netcdf"]
       THEN /\ handles' = handles \cup {<<idx, "h5netcdf">>}
            /\ pc' = "h5netcdf extract"
            /\ log' = log
            /\ idx' = idx
       ELSE /\ handles' = handles
            /\ pc' = "loop"
            /\ idx' = idx + 1
            /\ log' = Append(log, Line("[SKIP] h5netcdf fallback failed", idx,
                                        "h5netcdf", "cannot open"))
    /\ UNCHANGED <<pipeline, layer, gdf, lake_masks, files, out_rows, dfs, out_parquet, err, arg, ret>>

\* the with block of _extract_one_with_h5netcdf, then the rest of the second try
ExtractH5netcdf_uncaught ==
    /\ pipeline = "ilw"
    /\ pc = "h5netcdf extract"
    /\ LET r == ExtractWith(files[idx], idx, gdf, "h5netcdf")
       IN /\ handles' = handles \ {<<idx, "h5netcdf">>}
          /\ IF r.ok
             THEN /\ out_rows' = Append(out_rows, RunTable(r.df, idx, "h5netcdf"))
                  /\ log' = Append(log, Line("[daily] done", idx, "h5netcdf", ""))
                  /\ idx' = idx + 1
                  /\ pc' = "loop"
                  /\ err' = err
             ELSE /\ out_rows' = out_rows
                  /\ log' = log
                  /\ idx' = idx
                  /\ pc' = "raised"
                  /\ err' = r.err
    /\ UNCHANGED <<pipeline, layer, gdf, lake_masks, files, dfs, opens, out_parquet, arg, ret>>

ExtractH5netcdf ==
    /\ pipeline = "ilw"
    /\ pc = "h5netcdf extract"
    /\ LET r == ExtractWith(files[idx], idx, gdf, "h5netcdf")
       IN /\ handles' = handles \ {<<idx, "h5netcdf">>}
          /\ IF r.ok
             THEN /\ out_rows' = Append(out_rows, RunTable(r.df, idx, "h5netcdf"))
                  /\ log' = Append(log, Line("[daily] done", idx, "h5netcdf", ""))
             ELSE /\ out_rows' = out_rows
                  /\ log' = Append(log, Line("[SKIP] h5netcdf fallback failed", idx,
                                              "h5netcdf", r.err))
          /\ idx' = idx + 1
          /\ pc' = "loop"
    /\ UNCHANGED <<pipeline, layer, gdf, lake_masks, files, dfs, opens, out_parquet, err, arg, ret>>

\* after the loop: nothing collected, or concat, sort and save
Finish ==
    /\ pipeline = "ilw"
    /\ pc = "loop"
    /\ idx > Len(files)
    /\ IF out_rows = <<>>
       THEN /\ log' = Append(log, Line("No valid daily rows produced.", 0, "", ""))
            /\ out_parquet' = out_parquet
       ELSE /\ out_parquet' = [written |-> TRUE, rows |-> SortRows(Concat(out_rows))]
            /\ log' = Append(log, SavedLine(Len(Concat(out_rows)), Len(files)))
    /\ pc' = "done"
    /\ UNCHANGED <<pipeline, layer, gdf, lake_masks, files, idx, out_rows, dfs, opens, handles, err,
                   arg, ret>>

-----------------------------------------------------------------------------
(* The Daymet script *)

VAR_FILES == <<"tmin", "tmax", "prcp", "srad", "vp", "dayl">>

\* a Daymet file: whether it is there, and the variables it holds
DaymetFile(exists, variables) == [exists |-> exists, variables |-> variables]

\* the file of variable v: complete, lacking v, or not there; the tmin file,
\* which is also the grid file, may lack lat / lon
DaymetFilesFor(v) ==
    { DaymetFile(TRUE, {v, "lat", "lon"}),
      DaymetFile(TRUE, {"lat", "lon"}),
      DaymetFile(FALSE, {}) }
    \cup (IF v = "tmin" THEN {DaymetFile(TRUE, {v})} ELSE {})

DaymetRow(id, name, minx, miny, maxx, maxy) ==
    [lake_id |-> id, name |-> name,
     geometry |-> [minx |-> minx, miny |-> miny, maxx |-> maxx, maxy |-> maxy]]

DaymetRows == <<DaymetRow(1, 101, 0, 0, 3, 2), DaymetRow(2, 102, 7, 7, 9, 9)>>

DaymetLayers ==
    { Layer("EPSG:4326", {"lake_id", "name", "geometry"}, DaymetRows),
      Layer("EPSG:4326", {"lake_id", "geometry"}, DaymetRows),
      Layer("none", {"lake_id", "name", "geometry"}, DaymetRows),
      Layer("EPSG:4326", {"name", "geometry"}, DaymetRows) }

InitDaymet ==
    /\ pipeline = "daymet"
    /\ layer \in DaymetLayers
    /\ files \in { <<f1, f2, f3, f4, f5, f6>> :
                      f1 \in DaymetFilesFor(VAR_FILES[1]),
                      f2 \in DaymetFilesFor(VAR_FILES[2]),
                      f3 \in DaymetFilesFor(VAR_FILES[3]),
                      f4 \in DaymetFilesFor(VAR_FILES[4]),
                      f5 \in DaymetFilesFor(VAR_FILES[5]),
                      f6 \in DaymetFilesFor(VAR_FILES[6]) }

\* the first of "lake_name", "Lake_name", "name", "Name" the layer has
NameCol(columns) ==
    IF "lake_name" \in columns THEN "lake_name"
    ELSE IF "Lake_name" \in columns THEN "Lake_name"
    ELSE IF "name" \in columns THEN "name"
    ELSE IF "Name" \in columns THEN "Name"
    ELSE "lake_id"

\* shapely.vectorized.contains(geom, lon, lat) for a rectangle: its interior
Contains(geom, x, y) ==
    /\ geom.minx < x /\ x < geom.maxx
    /\ geom.miny < y /\ y < geom.maxy

\* lakes = gpd.read_file(GPKG).to_crs(4326); the lake_id check; the name column
DaymetReadLakes ==
    /\ pipeline = "daymet"
    /\ pc = "start"
    /\ IF layer.crs = "none"
       THEN /\ pc' = "raised"
            /\ err' = "ValueError: cannot transform naive geometries"
            /\ gdf' = gdf
       ELSE IF "lake_id" \notin layer.columns
       THEN /\ pc' = "raised"
            /\ err' = "ValueError: Expect 'lake_id'"
            /\ gdf' = gdf
       ELSE /\ gdf' = [i \in 1..Len(layer.rows) |->
                          [lake_id |-> layer.rows[i].lake_id,
                           lake_name |-> layer.rows[i][NameCol(layer.columns)],
                           geometry |-> layer.rows[i].geometry]]
            /\ pc' = "grid open"
            /\ err' = err
    /\ UNCHANGED <<pipeline, layer, lake_masks, files, idx, out_rows, dfs, log, opens,
                   handles, out_parquet, arg, ret>>

\* ds_grid = xr.open_dataset(f_grid, ...), f_grid being the tmin file
DaymetOpenGrid ==
    /\ pipeline = "daymet"
    /\ pc = "grid open"
    /\ opens' = Append(opens, [file |-> 1, engine |-> "default"])
    /\ IF files[1].exists
       THEN /\ handles' = handles \cup {<<1, "grid">>}
            /\ pc' = "grid read"
            /\ err' = err
       ELSE /\ handles' = handles
            /\ pc' = "raised"
            /\ err' = "FileNotFoundError"
    /\ UNCHANGED <<pipeline, layer, gdf, lake_masks, files, idx, out_rows, dfs, log,
                   out_parquet, arg, ret>>

\* read lat and lon, build one mask per lake, close the grid dataset
DaymetBuildMasks ==
    /\ pipeline = "daymet"
    /\ pc = "grid read"
    /\ IF {"lat", "lon"} \subseteq files[1].variables
       THEN /\ lake_masks' =
                  [i \in 1..Len(gdf) |->
                      [lake_id |-> gdf[i].lake_id,
                       mask |-> {c \in 1..NCells :
                                    Contains(gdf[i].geometry, GridLon[c], GridLat[c])}]]
            /\ log' = log \o
                  SelectSeq([i \in 1..Len(gdf) |->
                                Line(IF \E c \in 1..NCells :
                                           Contains(gdf[i].geometry, GridLon[c], GridLat[c])
                                     THEN "" ELSE "[WARN] mask has no True pixels",
                                     0, "", "")],
                            LAMBDA l : l.msg # "")
            /\ handles' = handles \ {<<1, "grid">>}
            /\ pc' = "vars"
            /\ idx' = 1
            /\ err' = err
       ELSE /\ pc' = "raised"
            /\ err' = "KeyError: lat"
            /\ UNCHANGED <<lake_masks, log, handles, idx>>
    /\ UNCHANGED <<pipeline, layer, gdf, files, out_rows, dfs, opens, out_parquet,
                   arg, ret>>

\* compute_lake_daily_for_var: ds = xr.open_dataset(fpath, ...)
DaymetOpenVar ==
    /\ pipeline = "daymet"
    /\ pc = "vars"
    /\ idx <= Len(VAR_FILES)
    /\ log' = Append(log, Line("[INFO] open", idx, "", ""))
    /\ opens' = Append(opens, [file |-> idx, engine |-> "default"])
    /\ IF files[idx].exists
       THEN /\ handles' = handles \cup {<<idx, "default">>}
            /\ pc' = "var read"
            /\ err' = err
       ELSE /\ handles' = handles
            /\ pc' = "raised"
            /\ err' = "FileNotFoundError"
    /\ UNCHANGED <<pipeline, layer, gdf, lake_masks, files, idx, out_rows, dfs,
                   out_parquet, arg, ret>>

\* compute_lake_daily_for_var, from da = ds[var_name] to the return
ComputeVar_swallow ==
    /\ pipeline = "daymet"
    /\ pc = "var read"
    /\ IF VAR_FILES[idx] \in files[idx].variables
       THEN /\ dfs' = Append(dfs, [i \in 1..Len(gdf) |->
                                     [lake_id |-> gdf[i].lake_id,
                                      lake_name |-> gdf[i].lake_name,
                                      var |-> VAR_FILES[idx]]])
            /\ handles' = handles \ {<<idx, "default">>}
            /\ idx' = idx + 1
            /\ pc' = "vars"
            /\ err' = err
       ELSE /\ dfs' = dfs
            /\ handles' = handles \ {<<idx, "default">>}
            /\ idx' = idx + 1
            /\ pc' = "vars"
            /\ err' = err
    /\ UNCHANGED <<pipeline, layer, gdf, lake_masks, files, out_rows, log, opens,
                   out_parquet, arg, ret>>

ComputeVar ==
    /\ pipeline = "daymet"
    /\ pc = "var read"
    /\ IF VAR_FILES[idx] \in files[idx].variables
       THEN /\ dfs' = Append(dfs, [i \in 1..Len(gdf) |->
                                     [lake_id |-> gdf[i].lake_id,
                                      lake_name |-> gdf[i].lake_name,
                                      var |-> VAR_FILES[idx]]])
            /\ handles' = handles \ {<<idx, "default">>}
            /\ idx' = idx + 1
            /\ pc' = "vars"
            /\ err' = err
       ELSE /\ pc' = "raised"
            /\ err' = "KeyError: variable"
            /\ UNCHANGED <<dfs, handles, idx>>
    /\ UNCHANGED <<pipeline, layer, gdf, lake_masks, files, out_rows, log, opens,
                   out_parquet, arg, ret>>

\* outer merge of the per-variable tables on (lake_id, lake_name, date),
\* sort, save
DaymetSave ==
    /\ pipeline = "daymet"
    /\ pc = "vars"
    /\ idx > Len(VAR_FILES)
    /\ out_parquet' =
          [written |-> TRUE,
           rows |-> [i \in 1..Len(gdf) |->
                       [lake_id |-> gdf[i].lake_id,
                        lake_name |-> gdf[i].lake_name,
                        columns |-> {dfs[j][i].var : j \in 1..Len(dfs)}]]]
    /\ log' = Append(log, Line("[OK] saved", 0, "", ""))
    /\ pc' = "done"
    /\ UNCHANGED <<pipeline, layer, gdf, lake_masks, files, idx, out_rows, dfs, opens,
                   handles, err, arg, ret>>

-----------------------------------------------------------------------------
(* The two scripts *)

Init ==
    /\ InitIlw \/ InitDaymet
    /\ gdf = <<>>
    /\ lake_masks = <<>>
    /\ pc = "start"
    /\ idx = 0
    /\ out_rows = <<>>
    /\ dfs = <<>>
    /\ log = <<>>
    /\ opens = <<>>
    /\ handles = {}
    /\ out_parquet = [written |-> FALSE, rows |-> <<>>]
    /\ err = ""
    /\ arg = <<>>
    /\ ret = <<>>

Next ==
    \/ ReadLakes
    \/ CheckHeader
    \/ OpenNetcdf4
    \/ ExtractNetcdf4
    \/ OpenH5netcdf
    \/ ExtractH5netcdf
    \/ Finish
    \/ DaymetReadLakes
    \/ DaymetOpenGrid
    \/ DaymetBuildMasks
    \/ DaymetOpenVar
    \/ ComputeVar
    \/ DaymetSave

Spec == Init /\ [][Next]_vars

-----------------------------------------------------------------------------
(* Properties of infer_time_label (SpecTime) *)

CoordReadable(ds) ==
    /\ "time" \in ds.variables
    /\ ds.time # <<>>
    /\ \A i \in DOMAIN ds.time : ds.time[i].k = "date"

AttrStart(ds) ==
    IF ds.attrs.time_coverage_start.k \in {"none", "empty"}
    THEN ds.attrs.start_time ELSE ds.attrs.time_coverage_start

AttrEnd(ds) ==
    IF ds.attrs.time_coverage_end.k \in {"none", "empty"}
    THEN ds.attrs.end_time ELSE ds.attrs.time_coverage_end

AttrsUsable(ds) == AttrStart(ds).k = "date" /\ AttrEnd(ds).k = "date"

NameUsable(fn, product) ==
    \/ product = "daily" /\ fn.kind = "DAY" /\ fn.b.k = "date"
    \/ product = "monthly" /\ fn.kind = "MO" /\ fn.b.k = "date" /\ fn.e.k = "date"

Midpoint(a, b) == IF b >= a THEN a + (b - a) \div 2 ELSE a - (a - b) \div 2

\* C5: infer_time_label returns the timestamp of the highest-priority source
\* that succeeds: the first value of a readable time coordinate, whatever the
\* attributes and the file name say; else the coverage attributes (start for
\* daily, midpoint for monthly); else the file name; it raises only when all
\* three fail.
C5_TimePriority ==
    pc = "returned" =>
        LET ds == arg.ds
            fn == arg.fn
            product == arg.product
        IN IF CoordReadable(ds)
           THEN ret.ok /\ ret.t = ds.time[1].v
           ELSE IF AttrsUsable(ds)
           THEN /\ ret.ok
                /\ ret.t = IF product = "daily" THEN AttrStart(ds).v
                           ELSE Midpoint(AttrStart(ds).v, AttrEnd(ds).v)
           ELSE IF NameUsable(fn, product)
           THEN /\ ret.ok
                /\ ret.t = IF product = "daily" THEN fn.b.v
                           ELSE Midpoint(fn.b.v, fn.e.v)
           ELSE ~ret.ok

\* a readable time coordinate whose first value differs from the usable
\* coverage attributes and from the date in the file name, and it wins
C5_Witness ==
    /\ pc = "returned"
    /\ CoordReadable(arg.ds)
    /\ AttrsUsable(arg.ds)
    /\ NameUsable(arg.fn, arg.product)
    /\ arg.ds.time[1].v # AttrStart(arg.ds).v
    /\ arg.ds.time[1].v # arg.fn.b.v
    /\ Len(arg.ds.time) > 1
    /\ ret.ok
    /\ ret.t = arg.ds.time[1].v

-----------------------------------------------------------------------------
(* Properties of clean_ci and the reduction (SpecReduce) *)

InBox(lake, c) ==
    /\ lake.geometry.minx <= GridLon[c] /\ GridLon[c] <= lake.geometry.maxx
    /\ lake.geometry.miny <= GridLat[c] /\ GridLat[c] <= lake.geometry.maxy

AtLeast(v, n) == v.k = "inf" \/ (v.k = "num" /\ v.n >= n)
AtMost(v, n) == v.k = "ninf" \/ (v.k = "num" /\ v.n <= n)
Above(v, n) == v.k = "inf" \/ (v.k = "num" /\ v.n > n)

Threshold(vmin) ==
    IF vmin.k = "num" /\ vmin.n > BackgroundCI THEN vmin.n ELSE BackgroundCI

\* valid_min <= v <= valid_max and v > threshold, a bound that is not known
\* (absent, or not finite) bounding nothing
InValidRange(da, c) ==
    LET v == da.vals[c]
        vmin == da.attrs.valid_min
        vmax == da.attrs.valid_max
    IN /\ vmin.k = "num" => AtLeast(v, vmin.n)
       /\ vmax.k = "num" => AtMost(v, vmax.n)
       /\ Above(v, Threshold(vmin))

RECURSIVE SumOver(_, _)
SumOver(da, cells) ==
    IF cells = {} THEN 0
    ELSE LET c == CHOOSE x \in cells : TRUE
         IN da.vals[c].n + SumOver(da, cells \ {c})

ClaimedCells(da, lake) ==
    {c \in DOMAIN da.vals : InBox(lake, c) /\ InValidRange(da, c)}

FiniteCells(da, lake) ==
    {c \in ClaimedCells(da, lake) : da.vals[c].k = "num"}

\* C6 as claimed: n_valid is exactly the number of cells in the lake's box
\* with valid_min <= v <= valid_max and v > threshold.
C6_Original ==
    (pc = "returned" /\ ret.ok) =>
        \A j \in DOMAIN arg.lakes :
            ret.df[j].n_valid =
                Cardinality(ClaimedCells(arg.ds.CI_cyano, arg.lakes[j]))

\* C6 amended: n_valid is exactly the number of cells in the lake's box that
\* are finite and satisfy valid_min <= v <= valid_max and v > threshold, and
\* the mean is taken over exactly those cells.
C6_MaskingLaw ==
    (pc = "returned" /\ ret.ok) =>
        \A j \in DOMAIN arg.lakes :
            LET cells == FiniteCells(arg.ds.CI_cyano, arg.lakes[j])
            IN /\ ret.df[j].n_valid = Cardinality(cells)
               /\ cells # {} =>
                     /\ ret.df[j].CI_mean.k = "num"
                     /\ ret.df[j].CI_mean.n = SumOver(arg.ds.CI_cyano, cells)
                     /\ ret.df[j].CI_mean.d = Cardinality(cells)

\* one lake whose box holds a cell at the threshold (excluded) and a cell
\* above it (kept), another whose only cell is above valid_max
C6_Witness ==
    /\ pc = "returned"
    /\ ret.ok
    /\ arg.ds.CI_cyano.attrs.valid_min = Num(3)
    /\ arg.ds.CI_cyano.attrs.valid_max = Num(9)
    /\ arg.ds.CI_cyano.vals[1] = Num(5)
    /\ arg.ds.CI_cyano.vals[2] = Num(6)
    /\ arg.ds.CI_cyano.vals[3] = Num(12)
    /\ ret.df[1].n_valid = 1
    /\ ret.df[1].CI_mean = Rat(6, 1)
    /\ ret.df[2].n_valid = 0

\* C7: a lake with zero finite cells still gets its row, with n_valid = 0 and
\* null mean and p90; no lake is dropped, and the other lakes are reduced.
C7_EmptyLakeKept ==
    (pc = "returned" /\ ret.ok) =>
        /\ Len(ret.df) = Len(arg.lakes)
        /\ \A j \in DOMAIN arg.lakes :
              /\ ret.df[j].lake_id = arg.lakes[j].lake_id
              /\ IF FiniteCells(arg.ds.CI_cyano, arg.lakes[j]) = {}
                 THEN /\ ret.df[j].n_valid = 0
                      /\ ret.df[j].CI_mean.k = "nan"
                      /\ ret.df[j].CI_p90.k = "nan"
                 ELSE /\ ret.df[j].n_valid > 0
                      /\ ret.df[j].CI_mean.k = "num"
                      /\ ret.df[j].CI_p90.k = "num"

\* valid_min = 0.001 with zeros in Huron's box and no cell in Superior's,
\* while Erie is reduced
C7_Witness ==
    /\ pc = "returned"
    /\ ret.ok
    /\ Len(arg.lakes) = 3
    /\ arg.ds.CI_cyano.vals[3] = Num(0)
    /\ ret.df[1].n_valid > 0
    /\ ret.df[2].n_valid = 0 /\ ret.df[2].CI_mean.k = "nan" /\ ret.df[2].CI_p90.k = "nan"
    /\ ret.df[3].n_valid = 0 /\ ret.df[3].CI_mean.k = "nan" /\ ret.df[3].CI_p90.k = "nan"

-----------------------------------------------------------------------------
(* Properties of run_daily (Spec) *)

Ilw == pipeline = "ilw"

\* the file's leading bytes are one of the known magic numbers
HasMagic(f) ==
    /\ f.readable
    /\ \E m \in {MagicHDF, MagicCDF} :
          /\ Len(f.bytes) >= Len(m)
          /\ \A i \in DOMAIN m : f.bytes[i] = m[i]

TimeKnown(f) ==
    CoordReadable(f.ds) \/ AttrsUsable(f.ds) \/ NameUsable(f.fn, "daily")

\* an attempt with this engine goes through: the engine decodes the file,
\* a timestamp is found, CI_cyano, lat and lon are there with one shape, and
\* reading the arrays does not fail
EngineWorks(f, e, lakes) ==
    /\ f.opens[e]
    /\ TimeKnown(f)
    /\ {"CI_cyano", "lat", "lon"} \subseteq f.ds.variables
    /\ Len(f.ds.lat) = Len(f.ds.CI_cyano.vals)
    /\ Len(f.ds.lon) = Len(f.ds.CI_cyano.vals)
    /\ f.ioerr[e] \notin 1..Len(lakes)

\* the failures the file loop must survive
FatalToFile(f) ==
    \/ ~HasMagic(f)
    \/ ~f.opens["netcdf4"] /\ ~f.opens["h5netcdf"]
    \/ ~TimeKnown(f)
    \/ "lat" \notin f.ds.variables
    \/ "lon" \notin f.ds.variables

\* the file's turn in the loop is over
Processed(i) == Ilw /\ i \in 1..Len(files) /\ idx > i

LinesFor(i, msgs) == {n \in DOMAIN log : log[n].file = i /\ log[n].msg \in msgs}

SkipMsgs == {"[WARN] Skip (not HDF5/NetCDF header)", "[SKIP] h5netcdf fallback failed"}

\* engines tried on file i, in the order of the calls
Attempts(i) ==
    LET calls == SelectSeq(opens, LAMBDA o : o.file = i)
    IN [n \in DOMAIN calls |-> calls[n].engine]

\* positions <<table, row>> of the collected rows of file i (and of lake id)
RowsOfFile(i) ==
    {<<t, r>> \in (DOMAIN out_rows) \X (1..(Len(gdf) + 1)) :
        r \in DOMAIN out_rows[t] /\ out_rows[t][r].src = i}

RowsOfPair(i, id) == {p \in RowsOfFile(i) : out_rows[p[1]][p[2]].lake_id = id}

\* C1: a file with a fatal-to-file failure is skipped with a diagnostic, no
\* exception leaves the file loop, every later file gets its turn, and the
\* final table holds rows only of files that succeeded.
C1_FileFailuresSkipped ==
    Ilw =>
        /\ pc = "raised" => idx = 0
        /\ \A i \in 1..Len(files) :
              /\ (Processed(i) /\ FatalToFile(files[i])) =>
                    /\ LinesFor(i, SkipMsgs) # {}
                    /\ RowsOfFile(i) = {}
              /\ (pc = "done" /\ gdf # <<>>) => LinesFor(i, {"[daily] start"}) # {}
        /\ \A n \in DOMAIN out_parquet.rows :
              /\ ~FatalToFile(files[out_parquet.rows[n].src])
              /\ LinesFor(out_parquet.rows[n].src, {"[daily] done"}) # {}

\* the run is over, the first file failed, the second one filled the table
C1_Witness ==
    /\ Ilw
    /\ pc = "done"
    /\ Len(files) = 2
    /\ HasMagic(files[1])
    /\ FatalToFile(files[1])
    /\ LinesFor(1, SkipMsgs) # {}
    /\ out_parquet.written
    /\ out_parquet.rows # <<>>
    /\ \A n \in DOMAIN out_parquet.rows : out_parquet.rows[n].src = 2

\* C2: no decode attempt is ever made on a file whose leading bytes match no
\* magic number (or that cannot be read); the file is skipped at once and
\* adds no rows.
C2_NoDecodeOnBadHeader ==
    Ilw =>
        \A i \in 1..Len(files) :
            ~HasMagic(files[i]) =>
                /\ Attempts(i) = <<>>
                /\ RowsOfFile(i) = {}
                /\ LinesFor(i, {"[daily] done", "[WARN] netcdf4 failed",
                                "[SKIP] h5netcdf fallback failed"}) = {}
                /\ Processed(i) =>
                      LinesFor(i, {"[WARN] Skip (not HDF5/NetCDF header)"}) # {}

\* an unreadable first file was skipped, and the second file was decoded
C2_Witness ==
    /\ Ilw
    /\ pc = "done"
    /\ Len(files) = 2
    /\ ~files[1].readable
    /\ Attempts(1) = <<>>
    /\ Attempts(2) # <<>>
    /\ LinesFor(1, {"[WARN] Skip (not HDF5/NetCDF header)"}) # {}

\* some engine gets the file through
WellFormed(f, lakes) ==
    HasMagic(f) /\ \E e \in {"netcdf4", "h5netcdf"} : EngineWorks(f, e, lakes)

\* C3: netcdf4 is tried first, h5netcdf only after the netcdf4 attempt
\* failed, nothing is tried after a success; for a well-formed file exactly
\* one attempt succeeds, and its engine is the one stored in the rows.
C3_OneEngineRecorded ==
    Ilw =>
        \A i \in 1..Len(files) :
            /\ Attempts(i) \in {<<>>, <<"netcdf4">>, <<"netcdf4", "h5netcdf">>}
            /\ Attempts(i) = <<"netcdf4", "h5netcdf">> =>
                  /\ ~EngineWorks(files[i], "netcdf4", gdf)
                  /\ LinesFor(i, {"[WARN] netcdf4 failed"}) # {}
            /\ (Processed(i) /\ WellFormed(files[i], gdf)) =>
                  /\ Cardinality(LinesFor(i, {"[daily] done"})) = 1
                  /\ Attempts(i) # <<>>
                  /\ EngineWorks(files[i], Attempts(i)[Len(Attempts(i))], gdf)
                  /\ \A n \in LinesFor(i, {"[daily] done"}) :
                        log[n].engine = Attempts(i)[Len(Attempts(i))]
                  /\ \A p \in RowsOfFile(i) :
                        out_rows[p[1]][p[2]].engine = Attempts(i)[Len(Attempts(i))]

\* a file that netcdf4 cannot open went through with h5netcdf, a file that
\* netcdf4 opens went through at the first attempt
C3_Witness ==
    /\ Ilw
    /\ pc = "done"
    /\ Len(files) = 2
    /\ Attempts(1) = <<"netcdf4", "h5netcdf">>
    /\ RowsOfFile(1) # {}
    /\ \A p \in RowsOfFile(1) : out_rows[p[1]][p[2]].engine = "h5netcdf"
    /\ Attempts(2) = <<"netcdf4">>
    /\ RowsOfFile(2) # {}
    /\ \A p \in RowsOfFile(2) : out_rows[p[1]][p[2]].engine = "netcdf4"

-----------------------------------------------------------------------------
(* Properties of both scripts (Spec) *)

Daymet == pipeline = "daymet"

LayerUnusable == layer.crs = "none" \/ "lake_id" \notin layer.columns

\* the file of the k-th Daymet variable is there and lacks the variable
LacksVariable(k) == Daymet /\ files[k].exists /\ VAR_FILES[k] \notin files[k].variables

\* C8 as claimed: with a fatal-to-run failure in the input (no lake_id
\* field, no CRS, a Daymet file without its variable) the run stops before
\* any raster file is processed, and writes no output table.
C8_Original ==
    (LayerUnusable \/ \E k \in 1..Len(VAR_FILES) : LacksVariable(k)) =>
        /\ dfs = <<>>
        /\ out_rows = <<>>
        /\ ~out_parquet.written

\* C8 amended: every fatal-to-run failure ends the run with no output table
\* written.  A lake layer without lake_id or without CRS ends it before any
\* raster file is opened.  A Daymet file without its variable ends it at that
\* file: the grid file and the files of the earlier variables have been
\* processed by then, no file of a later variable is opened.
C8_FatalToRun ==
    /\ pc = "raised" => ~out_parquet.written
    /\ LayerUnusable =>
          /\ pc \in {"start", "raised"}
          /\ opens = <<>>
          /\ handles = {}
          /\ ~out_parquet.written
    /\ \A k \in 1..Len(VAR_FILES) :
          LacksVariable(k) =>
              /\ \A n \in DOMAIN opens : opens[n].file <= k
              /\ Len(dfs) < k
              /\ idx <= k
              /\ pc # "done"
              /\ ~out_parquet.written

\* the prcp file lacks prcp: the run has raised there, with tmin and tmax
\* processed and their files opened
C8_Witness ==
    /\ Daymet
    /\ pc = "raised"
    /\ LacksVariable(3)
    /\ idx = 3
    /\ Len(dfs) = 2
    /\ Len(opens) = 4
    /\ ~out_parquet.written

\* the script holds a dataset open only between an open and the end of the
\* extraction that follows it
InsideFile ==
    pc \in {"netcdf4 extract", "h5netcdf extract", "grid read", "var read"}

\* C9: every raster handle is released as soon as the file's extraction has
\* ended, on the success path and on every failure path: outside a file's
\* processing step no handle is open.
C9_HandlesReleased ==
    /\ ~InsideFile => handles = {}
    /\ Cardinality(handles) <= 1

\* C10: when netcdf4 and h5netcdf both failed on a file that passed the
\* signature check, the low-level reader has tested the file before the skip
\* is decided, and the skip line carries the file name with the failure
\* reasons of both backends.
C10_ThreeStages ==
    Ilw =>
        \A i \in 1..Len(files) :
            \A n \in LinesFor(i, {"[SKIP] h5netcdf fallback failed"}) :
                /\ \E m \in DOMAIN opens : opens[m].file = i /\ opens[m].engine = "h5py"
                /\ {r[1] : r \in log[n].reasons} = {"netcdf4", "h5netcdf"}

-----------------------------------------------------------------------------
(* The closing output of run_daily (Spec) *)

ExtractedFiles == {i \in 1..Len(files) : LinesFor(i, {"[daily] done"}) # {}}
SkippedFiles == {i \in 1..Len(files) : LinesFor(i, SkipMsgs) # {}}

\* C11: a run of run_daily over a non-empty file list ends with a printed
\* count of the files processed and of the files skipped; a run that
\* produced no row at all prints an explicit message and writes no output
\* file.
C11_SummaryAndNoEmptyOutput ==
    (Ilw /\ pc = "done" /\ files # <<>>) =>
        /\ \E n \in DOMAIN log :
              /\ DOMAIN log[n].counts = {"processed", "skipped"}
              /\ log[n].counts["processed"] = Cardinality(ExtractedFiles)
              /\ log[n].counts["skipped"] = Cardinality(SkippedFiles)
        /\ (\A p \in (DOMAIN out_rows) : out_rows[p] = <<>>) =>
              /\ \E n \in DOMAIN log : log[n].msg = "No valid daily rows produced."
              /\ ~out_parquet.written

====
